---- MODULE Spec2Model ----
(***************************************************************************)
(* Model of the voice chat front end: the VoiceButton recognition session  *)
(* (src/src/components/VoiceButton.tsx), the conversation handler and the  *)
(* speech synthesis driver (src/src/App.tsx).                               *)
(*                                                                         *)
(* Text is a sequence of one-character strings.  Confidence is an integer  *)
(* number of tenths (0.8 is 8).  The browser is single threaded: every     *)
(* action is one task of the event loop, run to completion together with   *)
(* the microtasks it queues.                                               *)
(***************************************************************************)
EXTENDS Naturals, Integers, Sequences, FiniteSets, TLC

\* ---------------------------------------------------------------- bounds
MaxRecs == 2          \* recognition instances created (clicks that reach new SpeechRecognition())
MaxExchanges == 2     \* transcripts handed to handleSpeechResult
MaxVoiceChanges == 1  \* voiceschanged events delivered by the synthesis provider
MaxCatalogLen == 3    \* voices in a catalog handed to speakText (VoiceSpec)
MaxAlts == 2          \* alternatives of one recognition result (ResolveSpec)
MaxResults == 2       \* results of one recognition event (ResolveSpec)
MaxTextLen == 3       \* characters of a transcript to be cleaned up (ResolveSpec)
MaxEmits == 3         \* transcripts handed to handleSpeechResult (SessionSpec)
MaxTicks == 2         \* pause/resume cycles issued by interval callbacks (WatchdogSpec)

\* ------------------------------------------------------- program constants
ConfidenceThreshold == 8   \* 0.8, in tenths

Whitespace == {" "}
BackTick == "<backtick>"   \* the grave accent character, which a TLA+ string cannot hold
Punctuation == {".", ",", "/", "#", "!", "$", "%", "^", "&", "*", ";", ":",
                "{", "}", "=", "-", "_", BackTick, "~", "(", ")"}
LowerCase == {"a", "b"}
UpperCase == {"A", "B"}
WordChars == LowerCase \cup UpperCase \cup {"_"}

OrSeparator == <<" ", "O", "R", " ">>
ErrorText == <<"Sorry, there was an error processing your request.">>

\* ------------------------------------------------- transcript resolution
ToUpper(c) == IF c = "a" THEN "A" ELSE IF c = "b" THEN "B" ELSE c

RECURSIVE TrimLeft(_)
TrimLeft(s) ==
  IF s = <<>> THEN s
  ELSE IF Head(s) \in Whitespace THEN TrimLeft(Tail(s)) ELSE s

RECURSIVE TrimRight(_)
TrimRight(s) ==
  IF s = <<>> THEN s
  ELSE IF s[Len(s)] \in Whitespace THEN TrimRight(SubSeq(s, 1, Len(s) - 1)) ELSE s

Trim(s) == TrimRight(TrimLeft(s))

CapitalizeFirst(s) ==
  IF s # <<>> /\ s[1] \in WordChars THEN <<ToUpper(s[1])>> \o Tail(s) ELSE s

RECURSIVE CollapseSpaces(_)
CollapseSpaces(s) ==
  IF s = <<>> THEN s
  ELSE IF Head(s) \in Whitespace
       THEN <<" ">> \o CollapseSpaces(TrimLeft(s))
       ELSE <<Head(s)>> \o CollapseSpaces(Tail(s))

StripPunctuation(s) == SelectSeq(s, LAMBDA c : c \notin Punctuation)

Normalize(s) == StripPunctuation(CollapseSpaces(CapitalizeFirst(Trim(s))))

RECURSIVE JoinOr(_)
JoinOr(alts) ==
  IF alts = <<>> THEN <<>>
  ELSE IF Len(alts) = 1 THEN alts[1].transcript
  ELSE alts[1].transcript \o OrSeparator \o JoinOr(Tail(alts))

InitialBest == [transcript |-> <<>>, confidence |-> 0]

RECURSIVE ScanAlternatives(_, _)
ScanAlternatives(alts, best) ==
  IF alts = <<>> THEN best
  ELSE ScanAlternatives(Tail(alts),
         IF Head(alts).confidence > best.confidence
         THEN [transcript |-> Head(alts).transcript,
               confidence |-> Head(alts).confidence]
         ELSE best)

\* Variant: a confidence equal to the threshold is not accepted.
RawTranscript_strict(alts, best) ==
  IF best.confidence > ConfidenceThreshold THEN best.transcript ELSE JoinOr(alts)

\* finalTranscript before it is cleaned up.
RawTranscript(alts, best) ==
  IF best.confidence >= ConfidenceThreshold THEN best.transcript ELSE JoinOr(alts)

FinalTranscript(alts, best) ==
  LET raw == RawTranscript(alts, best)
  IN IF raw # <<>> THEN Normalize(raw) ELSE raw

\* Variant: a result is handled whether it is final or not.
RECURSIVE EmittedFrom_anyResult(_, _, _)
EmittedFrom_anyResult(results, i, best) ==
  IF i > Len(results) THEN <<>>
  ELSE LET b == ScanAlternatives(results[i].alts, best)
           t == FinalTranscript(results[i].alts, b)
       IN (IF t # <<>> THEN <<t>> ELSE <<>>) \o EmittedFrom_anyResult(results, i + 1, b)

\* The transcripts onresult hands to onSpeechResult, in order, for the
\* results i..Len(results) of one event; best is carried across results.
RECURSIVE EmittedFrom(_, _, _)
EmittedFrom(results, i, best) ==
  IF i > Len(results) THEN <<>>
  ELSE IF ~results[i].isFinal THEN EmittedFrom(results, i + 1, best)
  ELSE LET b == ScanAlternatives(results[i].alts, best)
           t == FinalTranscript(results[i].alts, b)
       IN (IF t # <<>> THEN <<t>> ELSE <<>>) \o EmittedFrom(results, i + 1, b)

Emitted(event) == EmittedFrom(event.results, event.resultIndex + 1, InitialBest)

\* What the loop of onresult holds at the end of each iteration on a final
\* result: the index of the result, bestResult, and finalTranscript before
\* and after it is cleaned up.
RECURSIVE ResolvedFrom(_, _, _)
ResolvedFrom(results, i, best) ==
  IF i > Len(results) THEN <<>>
  ELSE IF ~results[i].isFinal THEN ResolvedFrom(results, i + 1, best)
  ELSE LET b == ScanAlternatives(results[i].alts, best)
       IN <<[result |-> i, best |-> b,
             raw |-> RawTranscript(results[i].alts, b),
             text |-> FinalTranscript(results[i].alts, b)]>>
          \o ResolvedFrom(results, i + 1, b)

Resolved(event) == ResolvedFrom(event.results, event.resultIndex + 1, InitialBest)

\* ------------------------------------------------------ recognition events
Alt(t, c) == [transcript |-> t, confidence |-> c]
Res(f, alts) == [isFinal |-> f, alts |-> alts]
Ev(i, rs) == [resultIndex |-> i, results |-> rs]

EvInterim == Ev(0, <<Res(FALSE, <<Alt(<<"a">>, 5)>>)>>)
EvFinalHigh == Ev(0, <<Res(TRUE, <<Alt(<<"a">>, 9), Alt(<<"b">>, 3)>>)>>)
EvFinalLow == Ev(0, <<Res(TRUE, <<Alt(<<"b">>, 4), Alt(<<"a">>, 3)>>)>>)
EvFinalBlank == Ev(0, <<Res(TRUE, <<Alt(<<" ", "!">>, 9)>>)>>)
EvTwoFinals == Ev(0, <<Res(TRUE, <<Alt(<<"a">>, 9)>>), Res(TRUE, <<Alt(<<"b">>, 8)>>)>>)

Events == {EvInterim, EvFinalHigh, EvFinalLow, EvFinalBlank, EvTwoFinals}

\* ------------------------------------------------------------ voice catalog
Voice(n, l) == [name |-> n, lang |-> l]
VGeneric == Voice(<<"G", "e", "n", "e", "r", "i", "c">>, <<"f", "r", "-", "F", "R">>)
VDaniel == Voice(<<"D", "a", "n", "i", "e", "l">>, <<"e", "n", "-", "U", "S">>)
VGoogle == Voice(<<"G", "o", "o", "g", "l", "e", " ", "U", "K">>, <<"e", "n", "-", "G", "B">>)

VGoogleFr == Voice(<<"G", "o", "o", "g", "l", "e", " ", "F", "R">>, <<"f", "r", "-", "F", "R">>)
VMicrosoft == Voice(<<"M", "i", "c", "r", "o", "s", "o", "f", "t">>, <<"e", "n", "-", "U", "S">>)

CatalogEmpty == <<>>
CatalogA == <<VGeneric, VDaniel, VGoogle>>
CatalogB == <<VGeneric, VDaniel>>
Catalogs == {CatalogEmpty, CatalogA, CatalogB}

NoVoice == [name |-> <<>>, lang |-> <<>>]

Includes(s, sub) ==
  \E i \in 0..(Len(s) - Len(sub)) : SubSeq(s, i + 1, i + Len(sub)) = sub

StartsWith(s, pre) == Len(s) >= Len(pre) /\ SubSeq(s, 1, Len(pre)) = pre

MarkerMicrosoft == <<"M", "i", "c", "r", "o", "s", "o", "f", "t">>
MarkerGoogle == <<"G", "o", "o", "g", "l", "e">>
MarkerEnglish == <<"E", "n", "g", "l", "i", "s", "h">>
LangEn == <<"e", "n">>

IsEnglish(v) == StartsWith(v.lang, LangEn)

IsPreferred(v) ==
  /\ IsEnglish(v)
  /\ \/ Includes(v.name, MarkerMicrosoft)
     \/ Includes(v.name, MarkerGoogle)
     \/ Includes(v.name, MarkerEnglish)

\* Array.prototype.find: the first element whose index is in idx, or none.
Find(vs, idx) ==
  IF idx = {} THEN NoVoice ELSE vs[CHOOSE i \in idx : \A j \in idx : i <= j]

PreferredIndexes(vs) == {i \in 1..Len(vs) : IsPreferred(vs[i])}
EnglishIndexes(vs) == {i \in 1..Len(vs) : IsEnglish(vs[i])}

\* Variant: no English voice falls back to the first voice of the catalog.
englishVoice_fallbackFirst(vs) ==
  IF PreferredIndexes(vs) # {}
  THEN Find(vs, PreferredIndexes(vs))
  ELSE IF EnglishIndexes(vs) # {}
       THEN Find(vs, EnglishIndexes(vs))
       ELSE Find(vs, 1..Len(vs))

\* Variant: an English Microsoft voice is looked for before any other marker.
englishVoice_microsoftFirst(vs) ==
  LET ms == {i \in 1..Len(vs) : IsEnglish(vs[i]) /\ Includes(vs[i].name, MarkerMicrosoft)}
  IN IF ms # {} THEN Find(vs, ms)
     ELSE IF PreferredIndexes(vs) # {}
          THEN Find(vs, PreferredIndexes(vs))
          ELSE Find(vs, EnglishIndexes(vs))

englishVoice(vs) ==
  IF PreferredIndexes(vs) # {}
  THEN Find(vs, PreferredIndexes(vs))
  ELSE Find(vs, EnglishIndexes(vs))

\* ------------------------------------------------------------------- state
VARIABLES
  supported,    \* window.SpeechRecognition || window.webkitSpeechRecognition is defined
  synthAvail,   \* window.speechSynthesis is defined
  isListening,  \* VoiceButton state
  recs,         \* the SpeechRecognition instances created, in creation order
  messages,     \* App state: the chat messages
  voices,       \* App state: the voice catalog last loaded
  provVoices,   \* what speechSynthesis.getVoices() returns
  voiceChanges, \* number of voiceschanged events delivered
  exchanges,    \* one record per handleSpeechResult call (history)
  requests,     \* the fetch calls issued, in order
  timers,       \* pending setTimeout(..., 100) callbacks, in order
  speakCalls,   \* one record per speakText call (history)
  utts,         \* the utterances handed to speechSynthesis.speak, in order
  synthLog,     \* the cancel and speak calls made on speechSynthesis, in order
  unsupportedLogged, \* console.error('Speech recognition not supported') has run
  mounted,      \* the App component (and its VoiceButton) is mounted
  selectedModel, \* App state: the value of the model selector
  probe         \* the recognition event handed to onresult by ResolveSpec (input record)

appVars == <<mounted, selectedModel>>
recVars == <<supported, isListening, recs, unsupportedLogged, probe, appVars>>
chatVars == <<messages, exchanges, requests, timers>>
voiceVars == <<voices, provVoices, voiceChanges>>
synthVars == <<synthAvail, speakCalls, utts, synthLog>>
vars == <<supported, synthAvail, isListening, recs, messages, voices, provVoices,
          voiceChanges, exchanges, requests, timers, speakCalls, utts, synthLog,
          unsupportedLogged, probe, mounted, selectedModel>>

Message(t, u) == [text |-> t, isUser |-> u]

\* The options of the model selector; the first is the initial value.
DefaultModel == "gpt-3.5-turbo"
Models == {DefaultModel, "gpt-4"}

\* The value of probe outside ResolveSpec: no event is being handed over.
NoProbe == [pc |-> "off", event |-> EvInterim, trace |-> <<>>]

Reverse(s) == [i \in 1..Len(s) |-> s[Len(s) + 1 - i]]

\* The chat backend: the message field of the body it answers a request with.
ServerReply(text) == IF text = <<"A">> THEN <<"x">> ELSE <<"y">>
Replies(text) == {ServerReply(text)}

\* The state updater prev => [...prev, m]
AppendMessage_prepend(prev, m) == <<m>> \o prev
AppendMessage_overwrite(prev, m) ==
  IF prev = <<>> THEN <<m>> ELSE [prev EXCEPT ![Len(prev)] = m]
AppendMessage(prev, m) == Append(prev, m)

Init ==
  /\ supported \in BOOLEAN
  /\ synthAvail \in BOOLEAN
  /\ isListening = FALSE
  /\ recs = <<>>
  /\ messages = <<>>
  /\ provVoices \in (IF synthAvail THEN {CatalogEmpty, CatalogA} ELSE {CatalogEmpty})
  /\ voices = provVoices
  /\ voiceChanges = 0
  /\ exchanges = <<>>
  /\ requests = <<>>
  /\ timers = <<>>
  /\ speakCalls = <<>>
  /\ utts = <<>>
  /\ synthLog = <<>>
  /\ unsupportedLogged = FALSE
  /\ mounted = TRUE
  /\ selectedModel = DefaultModel
  /\ probe = NoProbe

\* ------------------------------------------------------------ VoiceButton
\* The attributes of the button as rendered: disabled={isListening} and
\* aria-pressed={isListening}.
disabled_never == FALSE

disabled == isListening

ariaPressed == isListening

\* Variant: isListening is not reset when speech recognition is missing.
startListening_stuck ==
  /\ mounted
  /\ ~disabled
  /\ IF ~supported
     THEN /\ isListening' = TRUE
          /\ recs' = recs
          /\ unsupportedLogged' = TRUE
     ELSE /\ Len(recs) < MaxRecs
          /\ unsupportedLogged' = unsupportedLogged
          /\ \E throws \in BOOLEAN :
               /\ recs' = Append(recs, [state |-> IF throws THEN "failed" ELSE "active",
                                        capMessages |-> messages,
                                        capVoices |-> voices])
               /\ isListening' = ~throws
  /\ UNCHANGED <<supported, appVars, probe, chatVars, voiceVars, synthVars>>

\* Variant: isListening is not reset when recognition.start() throws.
startListening_noCatch ==
  /\ mounted
  /\ ~disabled
  /\ IF ~supported
     THEN /\ isListening' = FALSE
          /\ recs' = recs
          /\ unsupportedLogged' = TRUE
     ELSE /\ Len(recs) < MaxRecs
          /\ unsupportedLogged' = unsupportedLogged
          /\ \E throws \in BOOLEAN :
               /\ recs' = Append(recs, [state |-> IF throws THEN "failed" ELSE "active",
                                        capMessages |-> messages,
                                        capVoices |-> voices])
               /\ isListening' = TRUE
  /\ UNCHANGED <<supported, appVars, probe, chatVars, voiceVars, synthVars>>

\* A click on the button; the button is disabled while isListening.
startListening ==
  /\ mounted
  /\ ~disabled
  /\ IF ~supported
     THEN /\ isListening' = FALSE
          /\ recs' = recs
          /\ unsupportedLogged' = TRUE
     ELSE /\ Len(recs) < MaxRecs
          /\ unsupportedLogged' = unsupportedLogged
          /\ \E throws \in BOOLEAN :
               /\ recs' = Append(recs, [state |-> IF throws THEN "failed" ELSE "active",
                                        capMessages |-> messages,
                                        capVoices |-> voices])
               /\ isListening' = ~throws
  /\ UNCHANGED <<supported, appVars, probe, chatVars, voiceVars, synthVars>>

\* handleSpeechResult up to its first await, for each transcript of ts in
\* turn: the user message is appended and the request is issued.
RECURSIVE AppendUserMessages(_, _)
AppendUserMessages(prev, ts) ==
  IF ts = <<>> THEN prev
  ELSE AppendUserMessages(AppendMessage(prev, Message(Head(ts), TRUE)), Tail(ts))

NewExchanges(r, ts) ==
  [k \in 1..Len(ts) |->
     [rec |-> r, text |-> ts[k], status |-> "pending", reply |-> <<>>,
      userIdx |-> Len(messages) + k, replyIdx |-> 0]]

NewRequests(r, ts) ==
  [k \in 1..Len(ts) |->
     [ex |-> Len(exchanges) + k, message |-> ts[k],
      context |-> Reverse(recs[r].capMessages)]]

handleSpeechResult_late(r, ts) ==
  /\ messages' = messages
  /\ exchanges' = exchanges \o NewExchanges(r, ts)
  /\ requests' = requests \o NewRequests(r, ts)

handleSpeechResult(r, ts) ==
  /\ messages' = AppendUserMessages(messages, ts)
  /\ exchanges' = exchanges \o NewExchanges(r, ts)
  /\ requests' = requests \o NewRequests(r, ts)

\* Variant: isListening is left alone after a transcript was handed over.
onresultHandler_noReset(r, event) ==
  /\ recs[r].state = "active"
  /\ handleSpeechResult(r, Emitted(event))
  /\ isListening' = isListening
  /\ UNCHANGED <<supported, appVars, recs, timers, unsupportedLogged, voiceVars, synthVars>>

\* recognition.onresult of instance r, for one event of the provider.
onresultHandler(r, event) ==
  /\ recs[r].state = "active"
  /\ LET ts == Emitted(event)
     IN /\ handleSpeechResult(r, ts)
        /\ isListening' = IF ts # <<>> THEN FALSE ELSE isListening
  /\ UNCHANGED <<supported, appVars, recs, timers, unsupportedLogged, voiceVars, synthVars>>

onresult(r, event) ==
  /\ Len(exchanges) + Len(Emitted(event)) <= MaxExchanges
  /\ onresultHandler(r, event)
  /\ UNCHANGED probe

\* recognition.onerror of instance r.  The provider reports an error once,
\* delivers no result after it, and ends the session next.
onerror_keepsListening(r) ==
  /\ recs[r].state = "active"
  /\ recs' = [recs EXCEPT ![r].state = "error"]
  /\ isListening' = isListening
  /\ UNCHANGED <<supported, appVars, unsupportedLogged, probe, chatVars, voiceVars, synthVars>>

onerror(r) ==
  /\ recs[r].state = "active"
  /\ recs' = [recs EXCEPT ![r].state = "error"]
  /\ isListening' = FALSE
  /\ UNCHANGED <<supported, appVars, unsupportedLogged, probe, chatVars, voiceVars, synthVars>>

\* recognition.onend: what the handler does, whichever state the instance is in.
onendHandler_toggle(r) ==
  /\ isListening' = ~isListening
  /\ UNCHANGED <<supported, appVars, unsupportedLogged, chatVars, voiceVars, synthVars>>

onendHandler(r) ==
  /\ isListening' = FALSE
  /\ UNCHANGED <<supported, appVars, unsupportedLogged, chatVars, voiceVars, synthVars>>

\* The provider ends the session of instance r, once.
onend(r) ==
  /\ recs[r].state \in {"active", "error"}
  /\ recs' = [recs EXCEPT ![r].state = "ended"]
  /\ onendHandler(r)
  /\ UNCHANGED probe

\* -------------------------------------------- handleSpeechResult, resumed
\* The response is ok and its body parsed: the reply is appended and the
\* state updater schedules speakText after 100 ms.
ResponseOk_echo(k, reply) ==
  /\ exchanges[k].status = "pending"
  /\ messages' = AppendMessage(messages, Message(exchanges[k].text, FALSE))
  /\ timers' = Append(timers, [ex |-> k, text |-> reply,
                               voices |-> recs[exchanges[k].rec].capVoices])
  /\ exchanges' = [exchanges EXCEPT ![k].status = "ok", ![k].reply = reply,
                                    ![k].replyIdx = Len(messages) + 1]
  /\ UNCHANGED <<requests, recVars, voiceVars, synthVars>>

ResponseOk_twice(k, reply) ==
  /\ exchanges[k].status = "pending"
  /\ messages' = AppendMessage(messages, Message(reply, FALSE))
  /\ timers' = timers \o
       [i \in 1..2 |-> [ex |-> k, text |-> reply,
                        voices |-> recs[exchanges[k].rec].capVoices]]
  /\ exchanges' = [exchanges EXCEPT ![k].status = "ok", ![k].reply = reply,
                                    ![k].replyIdx = Len(messages) + 1]
  /\ UNCHANGED <<requests, recVars, voiceVars, synthVars>>

ResponseOk(k, reply) ==
  /\ exchanges[k].status = "pending"
  /\ messages' = AppendMessage(messages, Message(reply, FALSE))
  /\ timers' = Append(timers, [ex |-> k, text |-> reply,
                               voices |-> recs[exchanges[k].rec].capVoices])
  /\ exchanges' = [exchanges EXCEPT ![k].status = "ok", ![k].reply = reply,
                                    ![k].replyIdx = Len(messages) + 1]
  /\ UNCHANGED <<requests, recVars, voiceVars, synthVars>>

\* fetch rejects, the status is not ok, or the body is not JSON: the catch
\* block appends the error message.
ResponseFailed_silent(k) ==
  /\ exchanges[k].status = "pending"
  /\ messages' = messages
  /\ exchanges' = [exchanges EXCEPT ![k].status = "failed", ![k].reply = ErrorText,
                                    ![k].replyIdx = Len(messages) + 1]
  /\ UNCHANGED <<requests, timers, recVars, voiceVars, synthVars>>

ResponseFailed_spoken(k) ==
  /\ exchanges[k].status = "pending"
  /\ messages' = AppendMessage(messages, Message(ErrorText, FALSE))
  /\ timers' = Append(timers, [ex |-> k, text |-> ErrorText,
                               voices |-> recs[exchanges[k].rec].capVoices])
  /\ exchanges' = [exchanges EXCEPT ![k].status = "failed", ![k].reply = ErrorText,
                                    ![k].replyIdx = Len(messages) + 1]
  /\ UNCHANGED <<requests, recVars, voiceVars, synthVars>>

\* Variant: the reply is appended and then the error message as well.
ResponseFailed_both(k) ==
  /\ exchanges[k].status = "pending"
  /\ messages' = AppendMessage(AppendMessage(messages, Message(ServerReply(exchanges[k].text), FALSE)),
                               Message(ErrorText, FALSE))
  /\ exchanges' = [exchanges EXCEPT ![k].status = "failed", ![k].reply = ErrorText,
                                    ![k].replyIdx = Len(messages) + 1]
  /\ UNCHANGED <<requests, timers, recVars, voiceVars, synthVars>>

ResponseFailed(k) ==
  /\ exchanges[k].status = "pending"
  /\ messages' = AppendMessage(messages, Message(ErrorText, FALSE))
  /\ exchanges' = [exchanges EXCEPT ![k].status = "failed", ![k].reply = ErrorText,
                                    ![k].replyIdx = Len(messages) + 1]
  /\ UNCHANGED <<requests, timers, recVars, voiceVars, synthVars>>

\* ---------------------------------------------------------------- speakText
Speaking == \E u \in 1..Len(utts) : utts[u].st = "pending"

\* speechSynthesis.cancel(): every queued utterance leaves the queue; the
\* provider may later report each of them through its end or error event.
Cancel(us) ==
  [u \in 1..Len(us) |->
     IF us[u].st = "pending" THEN [us[u] EXCEPT !.st = "cancelled"] ELSE us[u]]

\* st: "pending" (in the provider's queue), "done" (ended or failed, its
\* handler has run), "cancelled" (removed by cancel), "notified" (removed by
\* cancel, and its onend or onerror handler has run since).
Utterance(c, text, vs) ==
  [call |-> c, text |-> text, voice |-> englishVoice(vs), rate |-> 10, pitch |-> 10,
   volume |-> 10, st |-> "pending", utteranceTimer |-> TRUE]

\* speechSynthesis.speak(speech) followed by setInterval(..., 14000)
SpeakUtts(us, c, text, vs) == Append(us, Utterance(c, text, vs))
SpeakLog(log, c) == Append(log, [op |-> "speak", call |-> c])

\* The 100 ms timer of the oldest answered exchange fires: speakText runs up
\* to its await (no voices were captured and the provider has none yet) or
\* to its end.
speakText ==
  /\ timers # <<>>
  /\ LET t == Head(timers)
         c == Len(speakCalls) + 1
         call(st) == [ex |-> t.ex, text |-> t.text, st |-> st]
     IN IF ~synthAvail
        THEN /\ speakCalls' = Append(speakCalls, call("unavailable"))
             /\ UNCHANGED <<utts, synthLog>>
        ELSE LET us == Cancel(utts)
                 log == Append(synthLog, [op |-> "cancel", call |-> c])
             IN IF t.voices = <<>> /\ provVoices = <<>>
                THEN /\ speakCalls' = Append(speakCalls, call("waiting"))
                     /\ utts' = us
                     /\ synthLog' = log
                ELSE /\ speakCalls' = Append(speakCalls, call("spoken"))
                     /\ utts' = SpeakUtts(us, c, t.text,
                                          IF t.voices = <<>> THEN provVoices ELSE t.voices)
                     /\ synthLog' = SpeakLog(log, c)
  /\ timers' = Tail(timers)
  /\ UNCHANGED <<synthAvail, messages, exchanges, requests, recVars, voiceVars>>

\* The speakText calls suspended on the voices promise resume, in call order.
RECURSIVE ResumeUtts(_, _, _, _)
ResumeUtts(calls, c, us, cat) ==
  IF c > Len(calls) THEN us
  ELSE ResumeUtts(calls, c + 1,
                  IF calls[c].st = "waiting" THEN SpeakUtts(us, c, calls[c].text, cat) ELSE us,
                  cat)

RECURSIVE ResumeLog(_, _, _)
ResumeLog(calls, c, log) ==
  IF c > Len(calls) THEN log
  ELSE ResumeLog(calls, c + 1, IF calls[c].st = "waiting" THEN SpeakLog(log, c) ELSE log)

\* The provider's catalog changes and it fires voiceschanged: loadVoices
\* stores a non-empty catalog, and the listeners of suspended speakText
\* calls resolve their promise with it.
voicesChanged(cat) ==
  /\ synthAvail
  /\ voiceChanges < MaxVoiceChanges
  /\ cat # provVoices
  /\ provVoices' = cat
  /\ voiceChanges' = voiceChanges + 1
  /\ voices' = IF cat # <<>> THEN cat ELSE voices
  /\ IF cat # <<>>
     THEN /\ utts' = ResumeUtts(speakCalls, 1, utts, cat)
          /\ synthLog' = ResumeLog(speakCalls, 1, synthLog)
          /\ speakCalls' = [c \in 1..Len(speakCalls) |->
                              IF speakCalls[c].st = "waiting"
                              THEN [speakCalls[c] EXCEPT !.st = "spoken"]
                              ELSE speakCalls[c]]
     ELSE UNCHANGED <<utts, synthLog, speakCalls>>
  /\ UNCHANGED <<synthAvail, chatVars, recVars>>

\* ------------------------------------------------------ synthesis provider
IsFront(u) == utts[u].st = "pending" /\ \A v \in 1..(u - 1) : utts[v].st # "pending"

\* The utterance being spoken completes: speech.onend runs.
utteranceEnd(u) ==
  /\ IsFront(u)
  /\ utts' = [utts EXCEPT ![u].st = "done"]
  /\ UNCHANGED <<synthAvail, speakCalls, synthLog, chatVars, recVars, voiceVars>>

\* Variant: the error handler submits the utterance again.
utteranceError_retry(u) ==
  /\ IsFront(u)
  /\ utts' = Append([utts EXCEPT ![u].st = "done"], [utts[u] EXCEPT !.st = "pending"])
  /\ synthLog' = SpeakLog(synthLog, utts[u].call)
  /\ UNCHANGED <<synthAvail, speakCalls, chatVars, recVars, voiceVars>>

\* The utterance being spoken fails: speech.onerror runs.
utteranceError(u) ==
  /\ IsFront(u)
  /\ utts' = [utts EXCEPT ![u].st = "done"]
  /\ UNCHANGED <<synthAvail, speakCalls, synthLog, chatVars, recVars, voiceVars>>

\* The provider reports an utterance removed by cancel(): the handler that
\* speakText left on the utterance runs.
utteranceCancelled(u) ==
  /\ utts[u].st = "cancelled"
  /\ utts' = [utts EXCEPT ![u].st = "notified"]
  /\ UNCHANGED <<synthAvail, speakCalls, synthLog, chatVars, recVars, voiceVars>>

\* One tick of the setInterval callback of utterance u.
utteranceTimerTick(u) ==
  /\ utts[u].utteranceTimer
  /\ IF ~Speaking
     THEN utts' = [utts EXCEPT ![u].utteranceTimer = FALSE]
     ELSE utts' = utts      \* pause() then resume()
  /\ UNCHANGED <<synthAvail, speakCalls, synthLog, chatVars, recVars, voiceVars>>

\* ------------------------------------------------------------ specification
Next ==
  \/ startListening
  \/ \E r \in 1..Len(recs) : \E event \in Events : onresult(r, event)
  \/ \E r \in 1..Len(recs) : onerror(r)
  \/ \E r \in 1..Len(recs) : onend(r)
  \/ \E k \in 1..Len(exchanges) : \E reply \in Replies(exchanges[k].text) : ResponseOk(k, reply)
  \/ \E k \in 1..Len(exchanges) : ResponseFailed(k)
  \/ speakText
  \/ \E cat \in Catalogs : voicesChanged(cat)
  \/ \E u \in 1..Len(utts) : utteranceEnd(u)
  \/ \E u \in 1..Len(utts) : utteranceError(u)
  \/ \E u \in 1..Len(utts) : utteranceCancelled(u)
  \/ \E u \in 1..Len(utts) : utteranceTimerTick(u)

Spec == Init /\ [][Next]_vars

\* Every setTimeout callback is run by the event loop; what the user, the
\* recognizer, the network and the synthesis provider do is not promised.
FairSpec == Spec /\ WF_vars(speakText)

\* ------------------------------------------- the voice session on its own
\* The button, the recognition instances, the model selector and the unmount
\* of the App, without the backend's answers and without speech synthesis.
onresultSession(r, event) ==
  /\ Len(exchanges) + Len(Emitted(event)) <= MaxEmits
  /\ onresultHandler(r, event)
  /\ UNCHANGED probe

\* onChange of the model selector.
selectModel(model) ==
  /\ mounted
  /\ model # selectedModel
  /\ selectedModel' = model
  /\ UNCHANGED <<supported, isListening, recs, unsupportedLogged, probe, mounted,
                 chatVars, voiceVars, synthVars>>

\* The App is unmounted: its effect cleanup removes the voiceschanged and
\* visibilitychange handlers; VoiceButton has no cleanup, so the recognition
\* instances live on with their handlers.
unmount ==
  /\ mounted
  /\ mounted' = FALSE
  /\ UNCHANGED <<supported, isListening, recs, unsupportedLogged, probe, selectedModel,
                 chatVars, voiceVars, synthVars>>

NextSession ==
  \/ startListening
  \/ \E r \in 1..Len(recs) : \E event \in Events : onresultSession(r, event)
  \/ \E r \in 1..Len(recs) : onerror(r)
  \/ \E r \in 1..Len(recs) : onend(r)
  \/ \E model \in Models : selectModel(model)
  \/ unmount

SessionSpec == Init /\ [][NextSession]_vars

\* The provider ends every session it started (continuous is false): it
\* signals the end, after an error if there is one.
ProviderSettles ==
  \E r \in 1..Len(recs) : onerror(r) \/ onend(r)

FairSessionSpec == SessionSpec /\ WF_vars(ProviderSettles)

\* ----------------------------------------- transcript resolution on its own
\* onresult applied once to every event of a bounded set, in a session that
\* is listening with an empty chat.
AltPool == {Alt(<<"a">>, 8), Alt(<<"b">>, 8), Alt(<<"a">>, 4), Alt(<<"b">>, 4)}
AltSeqs == UNION {[1..k -> AltPool] : k \in 0..MaxAlts}
InterimResult == Res(FALSE, <<Alt(<<"a">>, 8)>>)
ResultPool == {Res(TRUE, alts) : alts \in AltSeqs} \cup {InterimResult}
SeveralPool == {Res(TRUE, <<Alt(<<"a">>, 8)>>), Res(TRUE, <<Alt(<<"b">>, 4)>>),
                Res(TRUE, <<Alt(<<"a">>, 4), Alt(<<"b">>, 4)>>), InterimResult}
ResultSeqs == {<<q>> : q \in ResultPool}
                \cup UNION {[1..k -> SeveralPool] : k \in 2..MaxResults}
ResolveEvents == {Ev(0, rs) : rs \in ResultSeqs}
                   \cup {Ev(1, rs) : rs \in {q \in ResultSeqs : Len(q) > 1}}

TextChars == {"a", " ", "!", "_"}
Texts == UNION {[1..k -> TextChars] : k \in 0..MaxTextLen}
TextEvents == {Ev(0, <<Res(TRUE, <<Alt(t, 9)>>)>>) : t \in Texts}

ProbeEvents == ResolveEvents \cup TextEvents

InitResolve ==
  /\ supported = TRUE
  /\ synthAvail = TRUE
  /\ isListening = TRUE
  /\ provVoices = CatalogA
  /\ voices = provVoices
  /\ voiceChanges = 0
  /\ recs = <<[state |-> "active", capMessages |-> <<>>, capVoices |-> voices]>>
  /\ messages = <<>>
  /\ exchanges = <<>>
  /\ requests = <<>>
  /\ timers = <<>>
  /\ speakCalls = <<>>
  /\ utts = <<>>
  /\ synthLog = <<>>
  /\ unsupportedLogged = FALSE
  /\ mounted = TRUE
  /\ selectedModel = DefaultModel
  /\ probe \in {[pc |-> "ready", event |-> e, trace |-> <<>>] : e \in ProbeEvents}

\* The provider delivers the event to recognition.onresult of the session.
deliver ==
  /\ probe.pc = "ready"
  /\ onresultHandler(1, probe.event)
  /\ probe' = [pc |-> "done", event |-> probe.event, trace |-> Resolved(probe.event)]

\* The provider then signals the end of the session, and signals it again.
endSignal ==
  /\ probe.pc \in {"done", "end1"}
  /\ onendHandler(1)
  /\ recs' = [recs EXCEPT ![1].state = "ended"]
  /\ probe' = [probe EXCEPT !.pc = IF probe.pc = "done" THEN "end1" ELSE "end2"]

NextResolve == deliver \/ endSignal

ResolveSpec == InitResolve /\ [][NextResolve]_vars

\* ---------------------------------------------- voice selection on its own
\* speakText applied to every catalog of at most MaxCatalogLen voices: the
\* state is the one in which the 100 ms timer of a single answered exchange
\* is about to fire, the catalog being the one loaded when the page opened.
SeqsUpTo(S, n) == UNION {[1..k -> S] : k \in 0..n}

VoicePool == {VGeneric, VDaniel, VGoogle, VGoogleFr, VMicrosoft}
VoiceCatalogs == SeqsUpTo(VoicePool, MaxCatalogLen)

InitVoice ==
  /\ supported = TRUE
  /\ synthAvail = TRUE
  /\ isListening = FALSE
  /\ provVoices \in VoiceCatalogs
  /\ voices = provVoices
  /\ voiceChanges = 0
  /\ recs = <<[state |-> "ended", capMessages |-> <<>>, capVoices |-> voices]>>
  /\ messages = <<Message(<<"A">>, TRUE), Message(ServerReply(<<"A">>), FALSE)>>
  /\ exchanges = <<[rec |-> 1, text |-> <<"A">>, status |-> "ok",
                    reply |-> ServerReply(<<"A">>), userIdx |-> 1, replyIdx |-> 2]>>
  /\ requests = <<[ex |-> 1, message |-> <<"A">>, context |-> <<>>]>>
  /\ timers = <<[ex |-> 1, text |-> ServerReply(<<"A">>), voices |-> voices]>>
  /\ speakCalls = <<>>
  /\ utts = <<>>
  /\ synthLog = <<>>
  /\ unsupportedLogged = FALSE
  /\ mounted = TRUE
  /\ selectedModel = DefaultModel
  /\ probe = NoProbe

NextVoice == speakText

VoiceSpec == InitVoice /\ [][NextVoice]_vars

\* ------------------------------------------ the response bodies on its own
\* The session and the conversation handler with a backend whose ok
\* responses may lack the message field, up to the submission of the reply
\* to the synthesis provider.
Undefined == <<"undefined">>   \* the value of a property the body does not have

Body(reply) == [message |-> reply]
BodyWithoutMessage == [error |-> <<"e">>]
Bodies(text) == {Body(ServerReply(text)), BodyWithoutMessage}

\* data.message
DataMessage(data) == IF "message" \in DOMAIN data THEN data.message ELSE Undefined

\* The response is ok and response.json() gives data.
responseJson(k, data) == ResponseOk(k, DataMessage(data))

NextBody ==
  \/ startListening
  \/ \E r \in 1..Len(recs) : \E event \in Events : onresult(r, event)
  \/ \E r \in 1..Len(recs) : onend(r)
  \/ \E k \in 1..Len(exchanges) : \E data \in Bodies(exchanges[k].text) : responseJson(k, data)
  \/ \E k \in 1..Len(exchanges) : ResponseFailed(k)
  \/ speakText

BodySpec == Init /\ [][NextBody]_vars

\* ------------------------------------------- the keep-alive timer on its own
\* speakText for two answered exchanges, the provider's reports, and the
\* setInterval callbacks with the pause() and resume() they issue written to
\* the provider's call log.
PauseResume(c) == <<[op |-> "pause", call |-> c], [op |-> "resume", call |-> c]>>

Cycles == Cardinality({i \in 1..Len(synthLog) : synthLog[i].op = "pause"})

\* Variant: the callback never looks at speechSynthesis.speaking.
watchdogTick_always(u) ==
  /\ u <= Len(utts)
  /\ utts[u].utteranceTimer
  /\ Cycles < MaxTicks
  /\ utts' = utts
  /\ synthLog' = synthLog \o PauseResume(utts[u].call)
  /\ UNCHANGED <<synthAvail, speakCalls, chatVars, recVars, voiceVars>>

\* One run of the setInterval callback of utterance u.
watchdogTick(u) ==
  /\ u <= Len(utts)
  /\ utts[u].utteranceTimer
  /\ IF ~Speaking
     THEN /\ utts' = [utts EXCEPT ![u].utteranceTimer = FALSE]
          /\ synthLog' = synthLog
     ELSE /\ Cycles < MaxTicks
          /\ utts' = utts
          /\ synthLog' = synthLog \o PauseResume(utts[u].call)
  /\ UNCHANGED <<synthAvail, speakCalls, chatVars, recVars, voiceVars>>

InitWatchdog ==
  /\ supported = TRUE
  /\ synthAvail = TRUE
  /\ isListening = FALSE
  /\ provVoices \in {CatalogA, CatalogB}
  /\ voices = provVoices
  /\ voiceChanges = 0
  /\ recs = <<[state |-> "ended", capMessages |-> <<>>, capVoices |-> voices]>>
  /\ messages = <<Message(<<"A">>, TRUE), Message(ServerReply(<<"A">>), FALSE),
                  Message(<<"B">>, TRUE), Message(ServerReply(<<"B">>), FALSE)>>
  /\ exchanges = <<[rec |-> 1, text |-> <<"A">>, status |-> "ok",
                    reply |-> ServerReply(<<"A">>), userIdx |-> 1, replyIdx |-> 2],
                   [rec |-> 1, text |-> <<"B">>, status |-> "ok",
                    reply |-> ServerReply(<<"B">>), userIdx |-> 3, replyIdx |-> 4]>>
  /\ requests = <<[ex |-> 1, message |-> <<"A">>, context |-> <<>>],
                  [ex |-> 2, message |-> <<"B">>, context |-> <<>>]>>
  /\ timers = <<[ex |-> 1, text |-> ServerReply(<<"A">>), voices |-> voices],
                [ex |-> 2, text |-> ServerReply(<<"B">>), voices |-> voices]>>
  /\ speakCalls = <<>>
  /\ utts = <<>>
  /\ synthLog = <<>>
  /\ unsupportedLogged = FALSE
  /\ mounted = TRUE
  /\ selectedModel = DefaultModel
  /\ probe = NoProbe

NextWatchdog ==
  \/ speakText
  \/ \E u \in 1..Len(utts) : utteranceEnd(u)
  \/ \E u \in 1..Len(utts) : utteranceError(u)
  \/ \E u \in 1..Len(utts) : utteranceCancelled(u)
  \/ \E u \in 1..Len(utts) : watchdogTick(u)

WatchdogSpec == InitWatchdog /\ [][NextWatchdog]_vars

\* The event loop runs the callback of every interval that is armed.
FairWatchdogSpec ==
  WatchdogSpec /\ \A u \in 1..MaxExchanges : WF_vars(watchdogTick(u))

\* ------------------------------------------------------------------ helpers
IsPrefix(a, b) == Len(a) <= Len(b) /\ SubSeq(b, 1, Len(a)) = a

Count(seq, Test(_)) == Cardinality({i \in 1..Len(seq) : Test(seq[i])})

ActiveRecs == {r \in 1..Len(recs) : recs[r].state \in {"active", "error"}}
PendingUtts == {u \in 1..Len(utts) : utts[u].st = "pending"}
Settled(k) == exchanges[k].status # "pending"
OkExchanges == {k \in 1..Len(exchanges) : exchanges[k].status = "ok"}
FailedExchanges == {k \in 1..Len(exchanges) : exchanges[k].status = "failed"}

\* ------------------------------------------------------------------- claims

\* C1: at most one recognition provider session is alive (started and not yet
\* ended) at a time.
C1_OneProviderSession == Cardinality(ActiveRecs) <= 1

\* C2: the message list only grows by appending at the end: in every step the
\* list before is a prefix of the list after.
C2_AppendOnly == [][IsPrefix(messages, messages')]_vars

\* Overlapping exchanges, answered out of order, one with success and one
\* with a failure.
C2_Witness ==
  /\ Len(exchanges) = 2
  /\ exchanges[1].status = "failed"
  /\ exchanges[2].status = "ok"
  /\ exchanges[2].replyIdx < exchanges[1].replyIdx
  /\ Len(messages) = 4

\* C3: a single transcript t answered with {message: r}, with no other
\* exchange, leaves exactly the two messages user t, assistant r, in this order.
C3_SingleExchange ==
  (Len(exchanges) = 1 /\ exchanges[1].status = "ok")
    => messages = <<Message(exchanges[1].text, TRUE),
                    Message(ServerReply(exchanges[1].text), FALSE)>>

C3_Witness ==
  /\ Len(exchanges) = 1
  /\ exchanges[1].status = "ok"
  /\ exchanges[1].text = <<"A">>
  /\ Len(messages) = 2

\* C4: for every failed exchange the user message is still in the list,
\* exactly one assistant error message was appended for it and exactly one
\* request was issued for it; the error messages in the list are as many as
\* the failed exchanges.
C4_FailureHandled ==
  /\ \A k \in FailedExchanges :
       /\ exchanges[k].userIdx <= Len(messages)
       /\ messages[exchanges[k].userIdx] = Message(exchanges[k].text, TRUE)
       /\ exchanges[k].replyIdx <= Len(messages)
       /\ messages[exchanges[k].replyIdx] = Message(ErrorText, FALSE)
       /\ Count(requests, LAMBDA q : q.ex = k) = 1
  /\ Count(messages, LAMBDA m : m = Message(ErrorText, FALSE)) = Cardinality(FailedExchanges)
  /\ Len(requests) = Len(exchanges)

C4_Witness ==
  /\ Len(exchanges) = 2
  /\ exchanges[1].status = "failed"
  /\ exchanges[2].status = "failed"
  /\ Len(messages) = 4

\* C5: while the request of an exchange is in flight and ever after, its user
\* message is in the list; once the exchange is settled, the user message
\* precedes the assistant (or error) message of the same exchange.
C5_UserMessageFirst ==
  \A k \in 1..Len(exchanges) :
    /\ exchanges[k].userIdx <= Len(messages)
    /\ messages[exchanges[k].userIdx] = Message(exchanges[k].text, TRUE)
    /\ Settled(k) =>
         /\ exchanges[k].userIdx < exchanges[k].replyIdx
         /\ exchanges[k].replyIdx <= Len(messages)
         /\ ~messages[exchanges[k].replyIdx].isUser

\* The user message is in the list while its request is still in flight.
C5_Witness ==
  /\ Len(exchanges) = 2
  /\ exchanges[1].status = "pending"
  /\ exchanges[2].status = "ok"
  /\ messages[1] = Message(exchanges[1].text, TRUE)

\* C6: every speakText call is for a successful exchange, carries the text of
\* the assistant message appended for that exchange, and that message is in
\* the list; each successful exchange has exactly one speakText call, made or
\* still scheduled, so n successful exchanges cause exactly n calls.
C6_SpeakOncePerSuccess ==
  /\ \A c \in 1..Len(speakCalls) :
       LET k == speakCalls[c].ex
       IN /\ exchanges[k].status = "ok"
          /\ speakCalls[c].text = ServerReply(exchanges[k].text)
          /\ exchanges[k].replyIdx <= Len(messages)
          /\ messages[exchanges[k].replyIdx] = Message(speakCalls[c].text, FALSE)
  /\ \A k \in OkExchanges :
       Count(speakCalls, LAMBDA c : c.ex = k) + Count(timers, LAMBDA t : t.ex = k) = 1
  /\ timers = <<>> => Len(speakCalls) = Cardinality(OkExchanges)

\* Two successful exchanges with different replies, both spoken.
C6_Witness ==
  /\ Len(speakCalls) = 2
  /\ timers = <<>>
  /\ speakCalls[1].text # speakCalls[2].text
  /\ Cardinality(OkExchanges) = 2

\* C7: no speakText call is made or scheduled for a failed exchange, and the
\* error text is never spoken.
C7_ErrorNotSpoken ==
  /\ \A k \in FailedExchanges :
       /\ Count(speakCalls, LAMBDA c : c.ex = k) = 0
       /\ Count(timers, LAMBDA t : t.ex = k) = 0
  /\ \A c \in 1..Len(speakCalls) : speakCalls[c].text # ErrorText
  /\ \A u \in 1..Len(utts) : utts[u].text # ErrorText

\* A failed exchange next to a successful one whose reply was spoken.
C7_Witness ==
  /\ Cardinality(FailedExchanges) = 1
  /\ Cardinality(OkExchanges) = 1
  /\ Len(speakCalls) = 1
  /\ timers = <<>>

\* C8: the synthesis provider never holds more than one submitted and
\* unfinished utterance: every speak on the provider directly follows the
\* cancel issued by the same speakText call.
C8_CancelBeforeSpeak ==
  /\ Cardinality(PendingUtts) <= 1
  /\ \A i \in 1..Len(synthLog) :
       synthLog[i].op = "speak" =>
         /\ i > 1
         /\ synthLog[i - 1] = [op |-> "cancel", call |-> synthLog[i].call]

\* C9: between the utterances of two consecutive speakText calls exactly one
\* cancel is issued, and no completion handler of an utterance runs after the
\* utterance was cancelled.
C9_CancelOnceNoLateCallback ==
  /\ \A i, j \in 1..Len(synthLog) :
       (/\ i < j
        /\ synthLog[i].op = "speak"
        /\ synthLog[j].op = "speak"
        /\ \A m \in (i + 1)..(j - 1) : synthLog[m].op # "speak")
         => Cardinality({m \in (i + 1)..(j - 1) : synthLog[m].op = "cancel"}) = 1
  /\ \A u \in 1..Len(utts) : utts[u].st # "notified"

\* C10: whenever the provider has no active utterance, no keep-alive interval
\* timer is armed.
C10_NoTimerWhenInactive ==
  ~Speaking => \A u \in 1..Len(utts) : ~utts[u].utteranceTimer

\* C11: the voice of every utterance is, for the catalog it was selected
\* from: an English voice with a marker in its name if the catalog has one;
\* otherwise an English voice if the catalog has one; otherwise no voice.  A
\* voice that is not English is never selected.
HasMarker(v) ==
  \E mk \in {MarkerMicrosoft, MarkerGoogle, MarkerEnglish} : Includes(v.name, mk)

InCatalog(v, cat) == \E i \in 1..Len(cat) : cat[i] = v

C11_TieredSelection ==
  \A u \in 1..Len(utts) :
    LET v == utts[u].voice
        cat == voices
        tier1 == \E i \in 1..Len(cat) : HasMarker(cat[i]) /\ IsEnglish(cat[i])
        tier2 == \E i \in 1..Len(cat) : IsEnglish(cat[i])
    IN /\ tier1 => (InCatalog(v, cat) /\ HasMarker(v) /\ IsEnglish(v))
       /\ (~tier1 /\ tier2) => (InCatalog(v, cat) /\ IsEnglish(v))
       /\ ~tier2 => v = NoVoice
       /\ v # NoVoice => IsEnglish(v)

\* A catalog of voices that are not English, one of them with a marker in its
\* name: the utterance is submitted with no voice.
C11_Witness ==
  /\ Len(utts) = 1
  /\ voices = <<VGeneric, VGoogleFr>>
  /\ utts[1].voice = NoVoice

\* C12: the selected voice is the earliest entry of the catalog that passes
\* the test of the winning tier, whichever marker it carries.
C12_FirstMatch ==
  \A u \in 1..Len(utts) :
    LET v == utts[u].voice
        cat == voices
        tier1 == {i \in 1..Len(cat) : HasMarker(cat[i]) /\ IsEnglish(cat[i])}
        tier2 == {i \in 1..Len(cat) : IsEnglish(cat[i])}
        win == IF tier1 # {} THEN tier1 ELSE tier2
    IN win # {} => \E i \in win : cat[i] = v /\ \A j \in win : i <= j

\* A Google voice listed before a Microsoft voice, after an English voice
\* with no marker: the Google voice is selected.
C12_Witness ==
  /\ Len(utts) = 1
  /\ voices = <<VDaniel, VGoogle, VMicrosoft>>
  /\ utts[1].voice = VGoogle

\* C13: the voice of every utterance is the one selected from the catalog the
\* provider reports at the moment the utterance is submitted.
C13_FreshCatalog ==
  [][\A u \in (Len(utts) + 1)..Len(utts') :
       utts'[u].voice = englishVoice(provVoices')]_vars

\* C14: every speakText call made where speech synthesis exists eventually
\* submits its utterance to the provider, also when the catalog is empty and
\* stays empty.
SpeakCalled(c) ==
  IF c <= Len(speakCalls) THEN speakCalls[c].st # "unavailable" ELSE FALSE

Submitted(c) ==
  IF c <= Len(speakCalls)
  THEN speakCalls[c].st = "spoken" /\ \E u \in 1..Len(utts) : utts[u].call = c
  ELSE FALSE

C14_SpeakEventuallySubmits ==
  \A c \in 1..MaxExchanges : SpeakCalled(c) ~> Submitted(c)

\* The texts of the user messages in the chat, in order.
UserTexts == [i \in 1..Len(messages) |-> messages[i].text]

Delivered == probe.pc = "done"

AltsOf(tr) == probe.event.results[tr.result].alts

\* C15: for every final result the selected alternative is one of the
\* result's alternatives with the greatest confidence, the earliest of them.
C15_MaxConfidenceFirst ==
  Delivered =>
    \A n \in 1..Len(probe.trace) :
      LET tr == probe.trace[n]
          alts == AltsOf(tr)
      IN alts # <<>> =>
           \E j \in 1..Len(alts) :
             /\ alts[j] = tr.best
             /\ \A k \in 1..Len(alts) : alts[k].confidence <= alts[j].confidence
             /\ \A k \in 1..(j - 1) : alts[k].confidence < alts[j].confidence

\* The transcripts of alts, in order, with " OR " between them.
RECURSIVE Joined(_, _)
Joined(alts, n) ==
  IF n = 0 THEN <<>>
  ELSE IF n = 1 THEN alts[1].transcript
  ELSE Joined(alts, n - 1) \o <<" ", "O", "R", " ">> \o alts[n].transcript

\* C16: for every final result, the text before clean-up is the transcript
\* of the selected alternative when its confidence is 0.8 or more, and
\* otherwise the transcripts of all the alternatives of the result, in
\* order, joined with " OR "; what is emitted is that text cleaned up.
C16_ThresholdBranch ==
  Delivered =>
    /\ \A n \in 1..Len(probe.trace) :
         LET tr == probe.trace[n]
         IN /\ tr.raw = IF tr.best.confidence >= 8
                        THEN tr.best.transcript
                        ELSE Joined(AltsOf(tr), Len(AltsOf(tr)))
            /\ tr.text = Normalize(tr.raw)
    /\ UserTexts = SelectSeq([n \in 1..Len(probe.trace) |-> probe.trace[n].text],
                             LAMBDA t : t # <<>>)

\* A result whose second alternative is the best one, with a confidence of
\* exactly 0.8: its transcript alone is emitted.
C16_Witness ==
  /\ Delivered
  /\ probe.event = Ev(0, <<Res(TRUE, <<Alt(<<"a">>, 4), Alt(<<"b">>, 8)>>)>>)
  /\ UserTexts = <<<<"B">>>>

\* C17: every transcript handed to the caller has no white space at either
\* end, no two white space characters in a row, none of the stripped
\* punctuation characters, and no lower-case letter as its first character.
FullyNormalized(t) ==
  /\ t # <<>> => (t[1] \notin Whitespace /\ t[Len(t)] \notin Whitespace)
  /\ \A i \in 1..(Len(t) - 1) : ~(t[i] \in Whitespace /\ t[i + 1] \in Whitespace)
  /\ \A i \in 1..Len(t) : t[i] \notin Punctuation
  /\ t # <<>> => t[1] \notin LowerCase

C17_EmittedNormalized ==
  \A i \in 1..Len(messages) : messages[i].isUser => FullyNormalized(messages[i].text)

\* C18: when the text of every final result of the event holds nothing but
\* white space and stripped punctuation (or is empty, or the result has no
\* alternatives), nothing is emitted: no chat message, no request.
Blank(t) == \A i \in 1..Len(t) : t[i] \in Whitespace \cup Punctuation

C18_BlankNotEmitted ==
  (Delivered /\ \A n \in 1..Len(probe.trace) : Blank(probe.trace[n].raw))
    => (messages = <<>> /\ requests = <<>> /\ exchanges = <<>>)

\* C19: an event whose results from resultIndex on are all non-final changes
\* nothing: no message, no request, and the session is still listening.
AllInterim(event) ==
  \A i \in (event.resultIndex + 1)..Len(event.results) : ~event.results[i].isFinal

C19_InterimChangesNothing ==
  (Delivered /\ AllInterim(probe.event))
    => /\ messages = <<>>
       /\ exchanges = <<>>
       /\ requests = <<>>
       /\ timers = <<>>
       /\ isListening
       /\ recs[1].state = "active"

\* A final result before resultIndex and an interim result after it.
C19_Witness ==
  /\ Delivered
  /\ probe.event = Ev(1, <<Res(TRUE, <<Alt(<<"a">>, 8)>>), InterimResult>>)
  /\ isListening
  /\ messages = <<>>

\* C20: where speech recognition is missing the session is never listening,
\* no recognition instance exists, the chat and the requests stay empty, and
\* a click on the button is accepted again.
C20_UnsupportedStaysIdle ==
  ~supported =>
    /\ ~isListening
    /\ recs = <<>>
    /\ messages = <<>>
    /\ exchanges = <<>>
    /\ requests = <<>>
    /\ ENABLED startListening

\* The button was clicked where speech recognition is missing.
C20_Witness ==
  /\ ~supported
  /\ unsupportedLogged
  /\ ~isListening
  /\ recs = <<>>

\* C21: an event delivered to a listening session with a final result of
\* non-empty text hands every such text to handleSpeechResult (user message
\* appended, request issued) and leaves the session idle; the hand-over and
\* the reset are one task, the hand-over first.
C21_SuccessPath ==
  (Delivered /\ \E n \in 1..Len(probe.trace) : probe.trace[n].text # <<>>)
    => /\ ~isListening
       /\ UserTexts # <<>>
       /\ \A n \in 1..Len(probe.trace) :
            probe.trace[n].text # <<>> =>
              \E i \in 1..Len(messages) : messages[i] = Message(probe.trace[n].text, TRUE)
       /\ Len(requests) = Len(messages)
       /\ \A k \in 1..Len(requests) : requests[k].message = messages[k].text

\* The event of the spec's first example, in the model's alphabet.
C21_Witness ==
  /\ Delivered
  /\ probe.event = Ev(0, <<Res(TRUE, <<Alt(<<"a">>, 8), Alt(<<"b">>, 4)>>)>>)
  /\ ~isListening
  /\ messages = <<Message(<<"A">>, TRUE)>>
  /\ Len(requests) = 1

\* C22: an event delivered to a listening session whose final results all
\* give no usable text leaves the session idle, with nothing emitted.
C22_EmptyPath ==
  (/\ Delivered
   /\ probe.trace # <<>>
   /\ \A n \in 1..Len(probe.trace) : probe.trace[n].text = <<>>)
    => (~isListening /\ messages = <<>> /\ requests = <<>>)

\* C23: the step in which the provider reports an error to a session leaves
\* the button idle and changes neither the chat nor the requests; while the
\* button is idle a click is accepted.
C23_ErrorPath ==
  /\ [][\A r \in 1..Len(recs) :
          (recs[r].state = "active" /\ recs'[r].state = "error")
            => /\ ~isListening'
               /\ messages' = messages
               /\ exchanges' = exchanges
               /\ requests' = requests]_vars
  /\ []((mounted /\ ~isListening /\ Len(recs) < MaxRecs) => ENABLED startListening)

\* An error was reported to the first session before any result.
C23_Witness ==
  /\ Len(recs) = 1
  /\ recs[1].state = "error"
  /\ ~isListening
  /\ exchanges = <<>>
  /\ messages = <<>>

\* C24: the first end signal leaves the session idle, whether the event
\* before it emitted a transcript or not, and touches nothing else; a second
\* end signal changes nothing at all.
C24_EndIdempotent ==
  [][/\ (probe.pc = "done" /\ probe'.pc = "end1")
          => (~isListening' /\ UNCHANGED <<chatVars, voiceVars, synthVars>>)
     /\ (probe.pc = "end1" /\ probe'.pc = "end2")
          => UNCHANGED <<isListening, recs, chatVars, voiceVars, synthVars>>]_vars

\* The session was still listening after an interim event when the end was
\* signalled, twice.
C24_Witness ==
  /\ probe.pc = "end2"
  /\ probe.event = Ev(0, <<InterimResult>>)
  /\ ~isListening
  /\ messages = <<>>

\* C25: once the App is unmounted no recognition instance is still running,
\* the session is idle, and no handler of an instance emits a transcript or
\* issues a request any more.
C25_TeardownReleases ==
  /\ [](~mounted => (~isListening /\ \A r \in 1..Len(recs) : recs[r].state # "active"))
  /\ [][~mounted => (exchanges' = exchanges /\ requests' = requests)]_vars

\* C26: a listening session is always followed by an idle one, provided the
\* provider settles every session it started; and the step of a click in
\* which recognition.start() throws ends idle.
C26_ListeningEndsIdle ==
  /\ isListening ~> ~isListening
  /\ [][(Len(recs') > Len(recs) /\ recs'[Len(recs')].state = "failed")
          => ~isListening']_vars

\* recognition.start() threw on the first click; the session of the second
\* click listened and was ended by the provider.
C26_Witness ==
  /\ Len(recs) = 2
  /\ recs[1].state = "failed"
  /\ recs[2].state = "ended"
  /\ ~isListening

\* C27: transcripts reach handleSpeechResult in the order of the clicks that
\* started their sessions: no transcript of an earlier session is handed over
\* after a transcript of a later one.
C27_CallOrder ==
  \A i, j \in 1..Len(exchanges) :
    i < j => exchanges[i].rec <= exchanges[j].rec

\* C28: every emitted transcript causes exactly one request, the requests
\* are issued in the order of the transcripts, and the body of each carries
\* the transcript as message together with the model selected when the
\* request is issued.
C28_OnePostWithModel ==
  /\ [](/\ Len(requests) = Len(exchanges)
        /\ \A k \in 1..Len(requests) :
             requests[k].ex = k /\ requests[k].message = exchanges[k].text)
  /\ [][\A k \in (Len(requests) + 1)..Len(requests') :
          /\ "model" \in DOMAIN requests'[k]
          /\ requests'[k].model = selectedModel]_vars

\* C29: the context of every request is the message history at the moment
\* its transcript is handed over: the messages appended before the user
\* message of the exchange, all of them, in arrival order.
C29_ContextIsHistory ==
  \A k \in 1..Len(requests) :
    requests[k].context = SubSeq(messages, 1, exchanges[requests[k].ex].userIdx - 1)

\* The positions given to messages so far: the user message of every
\* exchange and the assistant or error message of every settled one.
SeqNumbers ==
  {exchanges[k].userIdx : k \in 1..Len(exchanges)}
    \cup {exchanges[k].replyIdx : k \in {j \in 1..Len(exchanges) : Settled(j)}}

\* C30: the sequence number of a message is its position in the list.  The
\* numbers given out are 1..n with no gap and no repeat, each message is
\* found at its number, a later append gets a greater number than every
\* earlier one, and no number given out changes afterwards.
C30_SequenceNumbers ==
  /\ [](/\ SeqNumbers = 1..Len(messages)
        /\ Cardinality(SeqNumbers)
             = Len(exchanges) + Cardinality({k \in 1..Len(exchanges) : Settled(k)})
        /\ \A k \in 1..Len(exchanges) :
             /\ messages[exchanges[k].userIdx] = Message(exchanges[k].text, TRUE)
             /\ Settled(k) => ~messages[exchanges[k].replyIdx].isUser
             /\ \A j \in 1..(k - 1) : exchanges[j].userIdx < exchanges[k].userIdx)
  /\ [][/\ \A n \in SeqNumbers : n \in SeqNumbers' /\ messages'[n] = messages[n]
        /\ \A n \in SeqNumbers' \ SeqNumbers : \A o \in SeqNumbers : o < n
        /\ \A k \in 1..Len(exchanges) :
             /\ exchanges'[k].userIdx = exchanges[k].userIdx
             /\ Settled(k) => exchanges'[k].replyIdx = exchanges[k].replyIdx]_vars

\* Two overlapping exchanges, answered in the order they were started: the
\* four messages sit at 1, 2, 3 and 4.
C30_Witness ==
  /\ Len(exchanges) = 2
  /\ exchanges[1].status = "ok"
  /\ exchanges[2].status = "ok"
  /\ exchanges[1].userIdx = 1
  /\ exchanges[2].userIdx = 2
  /\ exchanges[1].replyIdx = 3
  /\ exchanges[2].replyIdx = 4

\* C31: a step in which the provider reports the end or the failure of an
\* utterance (spoken or cancelled), or in which speakText finds no speech
\* synthesis, appends no message, issues no request, schedules no speakText
\* and submits nothing to the provider.
SynthesisEvent ==
  \/ \E u \in 1..Len(utts) :
       /\ u <= Len(utts')
       /\ utts[u].st \in {"pending", "cancelled"}
       /\ utts'[u].st \in {"done", "notified"}
  \/ /\ Len(speakCalls') > Len(speakCalls)
     /\ speakCalls'[Len(speakCalls')].st = "unavailable"

C31_SynthesisLeavesChat ==
  [][SynthesisEvent =>
       /\ messages' = messages
       /\ exchanges' = exchanges
       /\ requests' = requests
       /\ Len(timers') <= Len(timers)
       /\ Len(utts') = Len(utts)
       /\ synthLog' = synthLog]_vars

\* The utterance of the only answered exchange failed or ended.
C31_Witness ==
  /\ Len(utts) = 1
  /\ utts[1].st = "done"
  /\ Len(messages) = 2
  /\ Len(requests) = 1
  /\ Len(synthLog) = 2

\* C32: the button is disabled and reports pressed exactly while the session
\* is listening.  A click that starts the provider leaves it disabled; a
\* usable result, an error, an end signal and a click where recognition is
\* missing leave it enabled.
C32_ButtonTracksListening ==
  /\ [](disabled = isListening /\ ariaPressed = isListening)
  /\ [][/\ (Len(recs') > Len(recs) /\ recs'[Len(recs')].state = "active")
             => (disabled' /\ ariaPressed')
        /\ Len(exchanges') > Len(exchanges) => ~disabled'
        /\ (\E r \in 1..Len(recs) :
              recs[r].state # recs'[r].state /\ recs'[r].state \in {"error", "ended"})
             => (~disabled' /\ ~ariaPressed')
        /\ (~supported /\ unsupportedLogged') => ~disabled']_vars

\* The provider was started by the first click and has delivered nothing:
\* the button is disabled and pressed.
C32_Witness ==
  /\ Len(recs) = 1
  /\ recs[1].state = "active"
  /\ exchanges = <<>>
  /\ disabled
  /\ ariaPressed

\* C33: the alternative selected for a final result is one of the
\* alternatives of that result, whatever the results before it in the same
\* event held; a result with no alternatives selects none.
C33_IndependentResults ==
  Delivered =>
    \A n \in 1..Len(probe.trace) :
      LET tr == probe.trace[n]
          alts == AltsOf(tr)
      IN IF alts = <<>>
         THEN tr.best = InitialBest
         ELSE \E j \in 1..Len(alts) : alts[j] = tr.best

\* C34: no recognition instance hands more than one transcript to
\* handleSpeechResult, in one event or in several.
C34_OneTranscriptPerStart ==
  \A r \in 1..Len(recs) :
    Cardinality({k \in 1..Len(exchanges) : exchanges[k].rec = r}) <= 1

\* C35: a step that takes the session from listening to idle is a callback
\* of the instance the latest click created: the result, the error or the
\* end signalled in that step belongs to that instance.
C35_OwnCallbacksOnly ==
  [][(isListening /\ ~isListening') =>
       /\ \A r \in 1..Len(recs) : recs'[r].state # recs[r].state => r = Len(recs)
       /\ \A k \in (Len(exchanges) + 1)..Len(exchanges') :
            exchanges'[k].rec = Len(recs)]_vars

\* C36: at most one keep-alive interval timer is armed at a time.
ArmedTimers == {u \in 1..Len(utts) : utts[u].utteranceTimer}

C36_OneWatchdog == Cardinality(ArmedTimers) <= 1

\* C37: a run of the interval callback that finds the provider speaking
\* issues pause() and then resume() and nothing else; a run that finds it
\* not speaking issues no call and clears its interval; pause() and resume()
\* are issued by no other step.  An armed interval that finds the provider
\* not speaking is eventually cleared, unless the provider speaks again.
Armed(u) == IF u <= Len(utts) THEN utts[u].utteranceTimer ELSE FALSE

C37_WatchdogTick ==
  /\ [][/\ Len(synthLog') > Len(synthLog)
             /\ synthLog'[Len(synthLog')].op \in {"pause", "resume"}
            => /\ Speaking
               /\ \E u \in ArmedTimers :
                    synthLog' = synthLog \o PauseResume(utts[u].call)
               /\ utts' = utts
        /\ (\E u \in ArmedTimers : u <= Len(utts') /\ ~utts'[u].utteranceTimer)
            => (~Speaking /\ synthLog' = synthLog)]_vars
  /\ \A u \in 1..MaxExchanges : (Armed(u) /\ ~Speaking) ~> (~Armed(u) \/ Speaking)

\* The interval of the first utterance issued a cycle while the second
\* utterance was being spoken, and was cleared after that one ended.
C37_Witness ==
  /\ Len(utts) = 2
  /\ utts[1].st = "cancelled"
  /\ utts[2].st = "done"
  /\ ~utts[1].utteranceTimer
  /\ \E i \in 1..Len(synthLog) :
       /\ synthLog[i] = [op |-> "pause", call |-> 1]
       /\ \E j \in 1..(i - 1) : synthLog[j] = [op |-> "speak", call |-> 2]

\* C38: the assistant or error message of every settled exchange sits
\* directly after the user message it answers, the list alternates user,
\* assistant, and the replies are in the order of their user messages.
C38_ReplyFollowsUser ==
  /\ \A k \in 1..Len(exchanges) :
       Settled(k) => exchanges[k].replyIdx = exchanges[k].userIdx + 1
  /\ \A i \in 1..(Len(messages) - 1) : messages[i].isUser # messages[i + 1].isUser
  /\ \A j, k \in 1..Len(exchanges) :
       (Settled(j) /\ Settled(k) /\ exchanges[j].userIdx < exchanges[k].userIdx)
         => exchanges[j].replyIdx < exchanges[k].replyIdx

\* C39: the assistant messages are never more than the user messages; there
\* is one for every settled exchange, a reply or an error; and when every
\* request issued has been settled the two numbers are equal.
UserMessages == {i \in 1..Len(messages) : messages[i].isUser}
AssistantMessages == {i \in 1..Len(messages) : ~messages[i].isUser}

C39_OneAnswerPerExchange ==
  /\ Cardinality(AssistantMessages) <= Cardinality(UserMessages)
  /\ Cardinality(AssistantMessages)
       = Cardinality({k \in 1..Len(exchanges) : Settled(k)})
  /\ (\A k \in 1..Len(exchanges) : Settled(k))
       => Cardinality(AssistantMessages) = Cardinality(UserMessages)

\* Two exchanges, the first answered with a failure after the second was
\* submitted, the second still in flight.
C39_Witness ==
  /\ Len(exchanges) = 2
  /\ exchanges[1].status = "failed"
  /\ exchanges[2].status = "pending"
  /\ Cardinality(UserMessages) = 2
  /\ Cardinality(AssistantMessages) = 1
  /\ messages[3] = Message(ErrorText, FALSE)

\* C40: every message of the list has a text, and the text is not empty.
C40_NoEmptyText ==
  \A i \in 1..Len(messages) :
    messages[i].text # <<>> /\ messages[i].text # Undefined

====
